---------------------------- MODULE Spec2Model ----------------------------
(***************************************************************************)
(* SpinoCare / ModicAnalyzer model server.                                 *)
(*                                                                         *)
(* The module models                                                       *)
(*   - server_aggregate.py: load_npz, aggregate_npz_files,                 *)
(*     keras_federated_averaging, convert_keras_to_tflite and              *)
(*     hybrid_fl_aggregation, over a small file system;                    *)
(*   - main.py: the start-up check of the served .tflite file and the      *)
(*     /model_info, /get_global_model and /status handlers;                *)
(*   - realtime_simulation.py: the client-side trigger of a round;         *)
(*   - test_model_update.py: the client that checks for a model update.    *)
(*                                                                         *)
(* Numbers: a tensor element is an integer; the float64 mean that          *)
(* np.mean returns is kept as an exact fraction <<num, den>> in lowest     *)
(* terms, computed as numpy does (sum along axis 0 in list order, then     *)
(* one division by N).  Rounding of float64 is not modelled.               *)
(***************************************************************************)
EXTENDS Integers, Sequences, FiniteSets, TLC

VARIABLES
    uploads,      \* the client .npz files, by position: uploads[i] is file i
    outNpz,       \* the file at output_path of aggregate_npz_files
    aggPc,        \* "ready" | "returned": the call of aggregate_npz_files
    aggRet,       \* what that call returned or raised, and the files it used
    kerasFile,    \* final_model.keras (GLOBAL_MODEL_KERAS)
    tfliteFile,   \* global_model.tflite (GLOBAL_MODEL_TFLITE)
    servedFile,   \* modic_model.tflite beside main.py (TFLITE_MODEL)
    kerasRound,   \* the round whose model.save wrote kerasFile (0: none)
    tfliteRound,  \* the round whose f.write wrote tfliteFile (0: none)
    hpc,          \* where hybrid_fl_aggregation stands
    hRet,         \* what it raised and where, and the files it used so far
    hRound,       \* the number of calls of hybrid_fl_aggregation so far
    roundsDone,   \* the number of those calls that returned
    pre,          \* the files and the manifest as the running call found them
    tfliteModel,  \* the bytes converter.convert() returned to that call
    kfaPc,        \* "ready" | "returned": a direct keras_federated_averaging
    kfaRet,       \* what that call returned or raised, and the files it used
    serverState,  \* "down" | "running" | "crashed": the process of main.py
    stats,        \* the stats dict of main.py
    resp,         \* the last answer of /model_info
    download,     \* the last answer of /get_global_model
    simOutcome,   \* what the last round of simulate_real_time_fl printed
    other,        \* a second call of hybrid_fl_aggregation: position, bytes
    cvPc,         \* "ready" | "returned": a direct convert_keras_to_tflite
    cvRet,        \* what that call returned or raised
    client,       \* the run of test_model_update.py: position and results
    localFile,    \* modic_model.tflite in the directory that script runs in
    predEnv,      \* main.py: tf_available and the shared prediction_interpreter
    reqs,         \* the /predict requests: position, upload and answer of each
    clientFile,   \* CLIENT_MODEL_PATH: modic_model.tflite in the app's assets
    backupFile,   \* modic_model.tflite.backup beside it
    manifestFile, \* model_manifest.json
    firstClient,  \* the client model the first sync that found one met
    setup         \* production_model_setup: position, steps run, result

aggVars == <<uploads, outNpz, aggPc, aggRet>>

fileVars == <<kerasFile, tfliteFile, servedFile, kerasRound, tfliteRound>>

hybridVars == <<hpc, hRet, hRound, roundsDone, pre, tfliteModel>>

kfaVars == <<kfaPc, kfaRet>>

serverVars == <<serverState, stats, resp, download>>

predVars == <<predEnv, reqs>>

setupVars == <<clientFile, backupFile, manifestFile, firstClient, setup>>

extVars == <<other, cvPc, cvRet, client, localFile, predVars, setupVars>>

vars == <<uploads, outNpz, aggPc, aggRet, kerasFile, tfliteFile, servedFile,
          kerasRound, tfliteRound, hpc, hRet, hRound, roundsDone, pre,
          tfliteModel, kfaPc, kfaRet, serverState, stats, resp, download,
          simOutcome, other, cvPc, cvRet, client, localFile, predEnv, reqs,
          clientFile, backupFile, manifestFile, firstClient, setup>>

(***************************************************************************)
(* Bounds of the model.                                                    *)
(***************************************************************************)
MaxInputs == 3

\* calls of hybrid_fl_aggregation in one behaviour
MaxRounds == 2

Keys == {"w", "b"}

Vals == {0, 1}

\* the lengths (1-D shapes) each key's array may have in an upload
DimsOf(k) == IF k = "w" THEN {1, 2} ELSE {1}

\* the element values each key's array may hold
ValsOf(k) == IF k = "w" THEN Vals ELSE {1}

\* A file is <<>> when no file is at the path and <<c>> when one with
\* content c is.
Absent == <<>>

File(c) == <<c>>

Exists(f) == f # Absent

Content(f) == f[1]

(***************************************************************************)
(* Arrays and .npz files.                                                  *)
(* An array has a shape, its elements in row-major order and an element    *)
(* type.  A loaded .npz is the sequence of its (key, array) entries in     *)
(* stored order, as the dict {k: data[k] for k in data.files}.             *)
(***************************************************************************)
ArraysOf(k) ==
    UNION { { [shape |-> <<n>>, data |-> d, dtype |-> "float32"] :
                d \in [1..n -> ValsOf(k)] } : n \in DimsOf(k) }

KeySeqs == { <<"w">>, <<"b">>, <<"w", "b">>, <<"b", "w">> }

\* the arrays of one element among them
ScalarArraysOf(k) == { x \in ArraysOf(k) : x.shape = <<1>> }

\* the files with these keys: any array under a single key, one-element
\* arrays under two keys
NpzOf(ks) ==
    IF Len(ks) = 1
    THEN { << [k |-> ks[1], a |-> x] >> : x \in ArraysOf(ks[1]) }
    ELSE { << [k |-> ks[1], a |-> x], [k |-> ks[2], a |-> y] >> :
             x \in ScalarArraysOf(ks[1]), y \in ScalarArraysOf(ks[2]) }

NpzFiles == UNION { NpzOf(ks) : ks \in KeySeqs }

SeqsUpTo(S, n) == UNION { [1..m -> S] : m \in 0..n }

\* list(d.keys())
KeysOf(d) == [i \in 1..Len(d) |-> d[i].k]

\* d[k]
Get(d, k) == (CHOOSE e \in { d[i] : i \in 1..Len(d) } : e.k = k).a

\* load_npz(path): the dict of the file at that path
load_npz(fs, path) == fs[path]

(***************************************************************************)
(* Exact fractions.                                                        *)
(***************************************************************************)
RECURSIVE Gcd(_, _)
Gcd(a, b) == IF b = 0 THEN a ELSE Gcd(b, a % b)

Abs(x) == IF x < 0 THEN -x ELSE x

Frac(n, d) ==
    LET g == Gcd(Abs(n), d)
    IN  <<n \div g, d \div g>>

RECURSIVE SumSeq(_)
SumSeq(s) == IF s = <<>> THEN 0 ELSE s[1] + SumSeq(Tail(s))

(***************************************************************************)
(* aggregate_npz_files.                                                    *)
(***************************************************************************)
\* np.stack(arrays, axis=0): needs one shape; the stacked rows otherwise
SameShape(arrays) == \A i \in 1..Len(arrays) : arrays[i].shape = arrays[1].shape

\* a running average avg = (avg + x) / 2 in place of the mean
RECURSIVE RunningAvg(_, _, _)
RunningAvg(s, num, den) ==
    IF s = <<>> THEN Frac(num, den)
    ELSE RunningAvg(Tail(s), num + s[1] * den, 2 * den)

MeanAxis0_Running(arrays) ==
    LET n == Len(arrays)
        len == Len(arrays[1].data)
    IN  [shape |-> arrays[1].shape,
         data  |-> [j \in 1..len |->
                      RunningAvg([i \in 1..(n - 1) |-> arrays[i + 1].data[j]],
                                 arrays[1].data[j], 1)],
         dtype |-> "float64"]

\* the mean taken over loaded[1:] only
MeanAxis0_SkipFirst(arrays) ==
    LET n == Len(arrays)
        len == Len(arrays[1].data)
    IN  [shape |-> arrays[1].shape,
         data  |-> [j \in 1..len |->
                      Frac(SumSeq([i \in 1..(n - 1) |-> arrays[i + 1].data[j]]), n)],
         dtype |-> "float64"]

\* the mean of the first two arrays only
MeanAxis0_FirstTwo(arrays) ==
    LET n == IF Len(arrays) > 2 THEN 2 ELSE Len(arrays)
        len == Len(arrays[1].data)
    IN  [shape |-> arrays[1].shape,
         data  |-> [j \in 1..len |->
                      Frac(SumSeq([i \in 1..n |-> arrays[i].data[j]]), n)],
         dtype |-> "float64"]

\* np.mean(stacked, axis=0) of float64 rows: sum down the rows, divide by N
MeanAxis0(arrays) ==
    LET n == Len(arrays)
        len == Len(arrays[1].data)
    IN  [shape |-> arrays[1].shape,
         data  |-> [j \in 1..len |->
                      Frac(SumSeq([i \in 1..n |-> arrays[i].data[j]]), n)],
         dtype |-> "float64"]

\* d[k].astype(np.float64) for d in loaded
AsFloat64(loaded, k) ==
    [i \in 1..Len(loaded) |-> [Get(loaded[i], k) EXCEPT !.dtype = "float64"]]

\* the key sets compared, whatever the order of the keys
KeysMatch_AsSets(loaded) ==
    \A i \in 2..Len(loaded) :
        { loaded[i][x].k : x \in 1..Len(loaded[i]) }
          = { loaded[1][x].k : x \in 1..Len(loaded[1]) }

KeysMatch(loaded) ==
    \A i \in 2..Len(loaded) : KeysOf(loaded[i]) = KeysOf(loaded[1])

ShapesMatch(loaded) ==
    \A i \in 1..Len(KeysOf(loaded[1])) :
        SameShape(AsFloat64(loaded, KeysOf(loaded[1])[i]))

Averaged(loaded) ==
    LET keys == KeysOf(loaded[1])
    IN  [i \in 1..Len(keys) |->
            [k |-> keys[i], a |-> MeanAxis0(AsFloat64(loaded, keys[i]))]]

\* files that do not match the first one are skipped instead of refused
aggregate_npz_files_Skip(fs, input_paths) ==
    IF input_paths = <<>>
    THEN [status |-> "ValueError", msg |-> "No input files provided",
          read |-> {}, wrote |-> FALSE, out |-> Absent]
    ELSE LET loaded == [i \in 1..Len(input_paths) |-> load_npz(fs, input_paths[i])]
             rd == { input_paths[i] : i \in 1..Len(input_paths) }
             Fits(d) == KeysMatch(<<loaded[1], d>>) /\ ShapesMatch(<<loaded[1], d>>)
         IN  [status |-> "ok", msg |-> "",
              read |-> rd, wrote |-> TRUE, out |-> Averaged(SelectSeq(loaded, Fits))]

\* the output file created, empty, before the keys are compared
aggregate_npz_files_SaveEarly(fs, input_paths) ==
    IF input_paths = <<>>
    THEN [status |-> "ValueError", msg |-> "No input files provided",
          read |-> {}, wrote |-> FALSE, out |-> Absent]
    ELSE LET loaded == [i \in 1..Len(input_paths) |-> load_npz(fs, input_paths[i])]
             rd == { input_paths[i] : i \in 1..Len(input_paths) }
         IN  IF ~KeysMatch(loaded)
             THEN [status |-> "ValueError",
                   msg |-> "Mismatch in keys across uploaded files",
                   read |-> rd, wrote |-> TRUE, out |-> <<>>]
             ELSE IF ~ShapesMatch(loaded)
             THEN [status |-> "ValueError",
                   msg |-> "all input arrays must have the same shape",
                   read |-> rd, wrote |-> TRUE, out |-> <<>>]
             ELSE [status |-> "ok", msg |-> "",
                   read |-> rd, wrote |-> TRUE, out |-> Averaged(loaded)]

\* The call aggregate_npz_files(input_paths, output_path) on file system fs:
\* what it raises or returns, the files it read, and what it wrote.
aggregate_npz_files(fs, input_paths) ==
    IF input_paths = <<>>
    THEN [status |-> "ValueError", msg |-> "No input files provided",
          read |-> {}, wrote |-> FALSE, out |-> Absent]
    ELSE LET loaded == [i \in 1..Len(input_paths) |-> load_npz(fs, input_paths[i])]
             rd == { input_paths[i] : i \in 1..Len(input_paths) }
         IN  IF ~KeysMatch(loaded)
             THEN [status |-> "ValueError",
                   msg |-> "Mismatch in keys across uploaded files",
                   read |-> rd, wrote |-> FALSE, out |-> Absent]
             ELSE IF ~ShapesMatch(loaded)
             THEN [status |-> "ValueError",
                   msg |-> "all input arrays must have the same shape",
                   read |-> rd, wrote |-> FALSE, out |-> Absent]
             ELSE [status |-> "ok", msg |-> "",
                   read |-> rd, wrote |-> TRUE, out |-> Averaged(loaded)]

InputPaths == [i \in 1..Len(uploads) |-> i]

NoRet == [status |-> "none", msg |-> "", read |-> {}, wrote |-> FALSE, out |-> Absent]

\* an output file left by an earlier run
StaleNpz == << [k |-> "w", a |-> [shape |-> <<1>>, data |-> <<Frac(1, 1)>>,
                                   dtype |-> "float64"]] >>

AggregateCall ==
    /\ aggPc = "ready"
    /\ LET r == aggregate_npz_files(uploads, InputPaths)
       IN  /\ aggRet' = r
           /\ outNpz' = IF r.wrote THEN File(r.out) ELSE outNpz
    /\ aggPc' = "returned"
    /\ UNCHANGED <<uploads, fileVars, hybridVars, kfaVars, serverVars, simOutcome, extVars>>

(***************************************************************************)
(* Model files.                                                            *)
(* A .keras file holds a model's weights; load_model gives the model and   *)
(* model.save writes it back.  The converter turns a model into the bytes  *)
(* of a .tflite file, here three chunks: the header, the float16 weights   *)
(* and the trailer.  A file cut short holds a proper prefix of them.       *)
(***************************************************************************)
\* the names of the files a call uses: <<name, number>>
KERAS == <<"final_model.keras", 0>>

TFLITE == <<"global_model.tflite", 0>>

\* model.get_weights(): the model's parameters, here one float32 tensor
\* per layer key with the value n/d in every element
WeightsOf(k, n, d) ==
    << [k |-> k, a |-> [shape |-> <<1>>, data |-> <<Frac(n, d)>>, dtype |-> "float32"]] >>

\* the models final_model.keras may hold before the first round
KerasModels == { WeightsOf("w", 0, 1) }

\* the model of the .tflite file shipped beside main.py
ShippedModel == WeightsOf("w", 1, 2)

KerasFileOf(w) == [format |-> "keras", weights |-> w]

\* tf.keras.models.load_model(path)
load_model(f) == [weights |-> Content(f).weights]

\* what model.save(path) writes
Saved(model) == KerasFileOf(model.weights)

\* converter.convert(): the bytes of the .tflite model
Convert(model) == <<"TFL3", model.weights, "float16">>

TFLiteOf(w) == Convert([weights |-> w])

ProperPrefixes(b) == { SubSeq(b, 1, n) : n \in 0..(Len(b) - 1) }

\* bytes that are no complete .tflite model
IsPartial(b) == \E w \in KerasModels \cup {ShippedModel} : b \in ProperPrefixes(TFLiteOf(w))

\* hashlib.sha256(bytes).hexdigest()
Sha256(b) == <<"sha256", b>>

(***************************************************************************)
(* keras_federated_averaging.                                              *)
(***************************************************************************)
\* the check that the model file exists made before the check of the list
keras_federated_averaging_ExistsFirst(client_weights_list, keras) ==
    IF ~Exists(keras)
    THEN [status |-> "FileNotFoundError", read |-> {}, wrote |-> {}, keras |-> keras]
    ELSE IF client_weights_list = <<>>
    THEN [status |-> "ValueError", read |-> {KERAS}, wrote |-> {}, keras |-> keras]
    ELSE [status |-> "ok", read |-> {KERAS}, wrote |-> {KERAS},
          keras |-> File(Saved(load_model(keras)))]

\* keras_federated_averaging(client_weights_list, global_model_path): the
\* client weights are only counted; the loaded model is saved as it is.
keras_federated_averaging(client_weights_list, keras) ==
    IF client_weights_list = <<>>
    THEN [status |-> "ValueError", read |-> {}, wrote |-> {}, keras |-> keras]
    ELSE IF ~Exists(keras)
    THEN [status |-> "FileNotFoundError", read |-> {}, wrote |-> {}, keras |-> keras]
    ELSE [status |-> "ok", read |-> {KERAS}, wrote |-> {KERAS},
          keras |-> File(Saved(load_model(keras)))]

NoCall == [status |-> "none", read |-> {}, wrote |-> {}]

Loaded == [i \in 1..Len(uploads) |-> load_npz(uploads, InputPaths[i])]

\* a direct call keras_federated_averaging(client_weights_list)
KerasFedAvgCall ==
    /\ kfaPc = "ready"
    /\ LET r == keras_federated_averaging(Loaded, kerasFile)
       IN  /\ kfaRet' = [status |-> r.status, read |-> r.read, wrote |-> r.wrote]
           /\ kerasFile' = r.keras
    /\ kfaPc' = "returned"
    /\ UNCHANGED <<aggVars, tfliteFile, servedFile, kerasRound, tfliteRound,
                   hybridVars, serverVars, simOutcome, extVars>>

(***************************************************************************)
(* convert_keras_to_tflite called on its own.                              *)
(***************************************************************************)
\* the output file is opened before the Keras file is looked for
convert_keras_to_tflite_OpenFirst(keras, tflite, converts, n) ==
    IF ~Exists(keras)
    THEN [status |-> "FileNotFoundError", tflite |-> File(<<>>)]
    ELSE IF ~converts
    THEN [status |-> "ConverterError", tflite |-> File(<<>>)]
    ELSE LET tflite_model == Convert(load_model(keras))
         IN  IF n >= Len(tflite_model)
             THEN [status |-> "ok", tflite |-> File(tflite_model)]
             ELSE [status |-> "OSError", tflite |-> File(SubSeq(tflite_model, 1, n))]

\* convert_keras_to_tflite(keras_model_path, tflite_output_path): what it
\* raises and the output file it leaves, when the converter works or not
\* and f.write gets n chunks written
convert_keras_to_tflite(keras, tflite, converts, n) ==
    IF ~Exists(keras)
    THEN [status |-> "FileNotFoundError", tflite |-> tflite]
    ELSE IF ~converts
    THEN [status |-> "ConverterError", tflite |-> tflite]
    ELSE LET tflite_model == Convert(load_model(keras))
         IN  IF n >= Len(tflite_model)
             THEN [status |-> "ok", tflite |-> File(tflite_model)]
             ELSE [status |-> "OSError", tflite |-> File(SubSeq(tflite_model, 1, n))]

NoCv == [status |-> "none"]

\* a direct call convert_keras_to_tflite()
ConvertCall ==
    /\ cvPc = "ready"
    /\ \E converts \in BOOLEAN, n \in 0..Len(TFLiteOf(ShippedModel)) :
         LET r == convert_keras_to_tflite(kerasFile, tfliteFile, converts, n)
         IN  /\ cvRet' = [status |-> r.status]
             /\ tfliteFile' = r.tflite
    /\ cvPc' = "returned"
    /\ UNCHANGED <<aggVars, kerasFile, servedFile, kerasRound, tfliteRound,
                   hybridVars, kfaVars, serverVars, simOutcome, other, client,
                   localFile,
                   predVars, setupVars>>

(***************************************************************************)
(* main.py: the stats dict and the two model handlers.                     *)
(***************************************************************************)
\* stats.get(key, default)
StatsGet(key, default) == IF key \in DOMAIN stats THEN stats[key] ELSE default

\* /model_info answering from global_model.tflite instead of TFLITE_MODEL
get_model_info_GlobalFile ==
    IF ~Exists(tfliteFile)
    THEN [status |-> 404]
    ELSE [status |-> 200,
          model_hash |-> Sha256(Content(tfliteFile)),
          model_version |-> ToString(StatsGet("total_aggregations", 0)),
          model_size_bytes |-> Len(Content(tfliteFile))]

\* GET /model_info
get_model_info ==
    IF ~Exists(servedFile)
    THEN [status |-> 404]
    ELSE [status |-> 200,
          model_hash |-> Sha256(Content(servedFile)),
          model_version |-> ToString(StatsGet("total_aggregations", 0)),
          model_size_bytes |-> Len(Content(servedFile))]

\* the Model-Version header counting the rounds that returned
get_global_model_CountsRounds ==
    IF ~Exists(servedFile)
    THEN [status |-> 404]
    ELSE [status |-> 200,
          ModelVersion |-> ToString(roundsDone),
          ModelHash |-> Sha256(Content(servedFile)),
          ModelSize |-> ToString(Len(Content(servedFile))),
          body |-> Absent]

\* GET /get_global_model: the headers; FileResponse sends the file after
get_global_model ==
    IF ~Exists(servedFile)
    THEN [status |-> 404]
    ELSE [status |-> 200,
          ModelVersion |-> "0",
          ModelHash |-> Sha256(Content(servedFile)),
          ModelSize |-> ToString(Len(Content(servedFile))),
          body |-> Absent]

\* GET /status, without the clock and the size in megabytes
status ==
    [status |-> "operational",
     architecture |-> "tflite_only",
     version |-> "2.3",
     tflite_model_exists |-> Exists(servedFile),
     total_clients |-> stats["total_clients"],
     health |-> [models_ready |-> Exists(servedFile), error_rate |-> 0]]

\* no answer yet; an answer is kept with the number of rounds done before it
NoResp == [status |-> 0]

\* what the manifest shows of the files a call of hybrid_fl_aggregation found
Snapshot == [keras |-> kerasFile, tflite |-> tfliteFile, info |-> get_model_info]

NoSnapshot == [keras |-> Absent, tflite |-> Absent, info |-> NoResp]

(***************************************************************************)
(* hybrid_fl_aggregation, one step per file operation.                     *)
(***************************************************************************)
NpzNames == { <<"client.npz", i>> : i \in 1..Len(uploads) }

HRet(err, stage, read, wrote) ==
    [err |-> err, stage |-> stage, read |-> read, wrote |-> wrote]

NoHRet == HRet("", "", {}, {})

\* the clients' keys compared before anything else is done
HybridStart_ChecksKeys ==
    /\ hpc = "idle"
    /\ hRound < MaxRounds
    /\ hRound' = hRound + 1
    /\ pre' = Snapshot
    /\ IF InputPaths = <<>> \/ ~KeysMatch(Loaded)
       THEN /\ hpc' = "raised"
            /\ hRet' = HRet("ValueError", "start", {}, {})
       ELSE /\ hpc' = "loaded"
            /\ hRet' = HRet("", "", NpzNames, {})
    /\ UNCHANGED <<aggVars, fileVars, roundsDone, tfliteModel, kfaVars,
                   serverVars, simOutcome, extVars>>

\* lines 140-144: the check of the list, then load_npz of every path
HybridStart ==
    /\ hpc = "idle"
    /\ hRound < MaxRounds
    /\ hRound' = hRound + 1
    /\ pre' = Snapshot
    /\ IF InputPaths = <<>>
       THEN /\ hpc' = "raised"
            /\ hRet' = HRet("ValueError", "start", {}, {})
       ELSE /\ hpc' = "loaded"
            /\ hRet' = HRet("", "", NpzNames, {})
    /\ UNCHANGED <<aggVars, fileVars, roundsDone, tfliteModel, kfaVars,
                   serverVars, simOutcome, extVars>>

\* line 147: keras_federated_averaging(client_weights, keras_output_path)
HybridAverage ==
    /\ hpc = "loaded"
    /\ LET r == keras_federated_averaging(Loaded, kerasFile)
       IN  /\ kerasFile' = r.keras
           /\ kerasRound' = IF r.status = "ok" THEN hRound ELSE kerasRound
           /\ hpc' = IF r.status = "ok" THEN "averaged" ELSE "raised"
           /\ hRet' = HRet(IF r.status = "ok" THEN "" ELSE r.status,
                           IF r.status = "ok" THEN "" ELSE "average",
                           hRet.read \cup r.read, hRet.wrote \cup r.wrote)
    /\ UNCHANGED <<aggVars, tfliteFile, servedFile, tfliteRound, hRound,
                   roundsDone, pre, tfliteModel, kfaVars, serverVars, simOutcome, extVars>>

\* a failed conversion that throws the client updates away
HybridConvert_DropsInputs ==
    /\ hpc = "averaged"
    /\ \E converts \in BOOLEAN :
         IF converts /\ Exists(kerasFile)
         THEN /\ hpc' = "converted"
              /\ tfliteModel' = Convert(load_model(kerasFile))
              /\ hRet' = [hRet EXCEPT !.read = @ \cup {KERAS}]
              /\ UNCHANGED uploads
         ELSE /\ hpc' = "raised"
              /\ hRet' = [hRet EXCEPT !.err = "ConverterError", !.stage = "convert"]
              /\ uploads' = <<>>
              /\ UNCHANGED tfliteModel
    /\ UNCHANGED <<outNpz, aggPc, aggRet, fileVars, hRound, roundsDone, pre,
                   kfaVars, serverVars, simOutcome, extVars>>

\* lines 99-112 of convert_keras_to_tflite: the model is loaded and
\* converted; the converter may fail
HybridConvert ==
    /\ hpc = "averaged"
    /\ IF ~Exists(kerasFile)
       THEN /\ hpc' = "raised"
            /\ hRet' = [hRet EXCEPT !.err = "FileNotFoundError", !.stage = "convert"]
            /\ UNCHANGED tfliteModel
       ELSE \E converts \in BOOLEAN :
              IF converts
              THEN /\ hpc' = "converted"
                   /\ tfliteModel' = Convert(load_model(kerasFile))
                   /\ hRet' = [hRet EXCEPT !.read = @ \cup {KERAS}]
              ELSE /\ hpc' = "raised"
                   /\ hRet' = [hRet EXCEPT !.err = "ConverterError",
                                           !.stage = "convert",
                                           !.read = @ \cup {KERAS}]
                   /\ UNCHANGED tfliteModel
    /\ UNCHANGED <<aggVars, fileVars, hRound, roundsDone, pre, kfaVars,
                   serverVars, simOutcome, extVars>>

\* the positions of a call between converter.convert() and the end of
\* f.write: the .tflite file is being replaced
Publishing == {"converted", "opened"}

\* bytes written at offset 0 over a file: they replace its first bytes and
\* leave what lies beyond them
Overlay(old, new) ==
    [i \in 1..(IF Len(old) > Len(new) THEN Len(old) ELSE Len(new)) |->
        IF i <= Len(new) THEN new[i] ELSE old[i]]

\* line 115: open(tflite_output_path, "wb") creates or empties the file
HybridOpen ==
    /\ hpc = "converted"
    /\ tfliteFile' = File(<<>>)
    /\ hpc' = "opened"
    /\ hRet' = [hRet EXCEPT !.wrote = @ \cup {TFLITE}]
    /\ UNCHANGED <<aggVars, kerasFile, servedFile, kerasRound, tfliteRound,
                   hRound, roundsDone, pre, tfliteModel, kfaVars, serverVars,
                   simOutcome, extVars>>

\* line 116: f.write(tflite_model) writes all the bytes, or fails having
\* written some of them; lines 118-120 and 152 return
HybridWrite ==
    /\ hpc = "opened"
    /\ \E n \in 0..Len(tfliteModel) :
         /\ tfliteFile' = File(Overlay(Content(tfliteFile), SubSeq(tfliteModel, 1, n)))
         /\ IF n = Len(tfliteModel)
            THEN /\ hpc' = "returned"
                 /\ tfliteRound' = hRound
                 /\ roundsDone' = roundsDone + 1
                 /\ UNCHANGED hRet
            ELSE /\ hpc' = "raised"
                 /\ hRet' = [hRet EXCEPT !.err = "OSError", !.stage = "convert"]
                 /\ UNCHANGED <<tfliteRound, roundsDone>>
    /\ UNCHANGED <<aggVars, kerasFile, servedFile, kerasRound, hRound, pre,
                   tfliteModel, kfaVars, serverVars, simOutcome, extVars>>

\* the caller has the result or the exception; the next call may start
HybridFinish ==
    /\ hpc \in {"returned", "raised"}
    /\ hpc' = "idle"
    /\ hRet' = NoHRet
    /\ pre' = NoSnapshot
    /\ tfliteModel' = <<>>
    /\ UNCHANGED <<aggVars, fileVars, hRound, roundsDone, kfaVars, serverVars,
                   simOutcome, extVars>>

(***************************************************************************)
(* A second call of hybrid_fl_aggregation, made while the first may be     *)
(* running: the function takes no lock and keeps no flag, so its steps     *)
(* interleave with those of the first call on the same files.              *)
(***************************************************************************)
NoOther == [pc |-> "idle", round |-> 0, model |-> <<>>]

\* the positions of a call that has started and not yet ended
InFlight == {"loaded", "averaged", "converted", "opened"}

\* lines 140-144
SecondStart ==
    /\ other.pc = "idle"
    /\ hRound < MaxRounds
    /\ hRound' = hRound + 1
    /\ other' = [pc |-> IF InputPaths = <<>> THEN "raised" ELSE "loaded",
                 round |-> hRound + 1, model |-> <<>>]
    /\ UNCHANGED <<aggVars, fileVars, hpc, hRet, roundsDone, pre, tfliteModel,
                   kfaVars, serverVars, simOutcome, cvPc, cvRet, client, localFile,
                   predVars, setupVars>>

\* line 147
SecondAverage ==
    /\ other.pc = "loaded"
    /\ LET r == keras_federated_averaging(Loaded, kerasFile)
       IN  /\ kerasFile' = r.keras
           /\ kerasRound' = IF r.status = "ok" THEN other.round ELSE kerasRound
           /\ other' = [other EXCEPT !.pc = IF r.status = "ok" THEN "averaged"
                                           ELSE "raised"]
    /\ UNCHANGED <<aggVars, tfliteFile, servedFile, tfliteRound, hybridVars,
                   kfaVars, serverVars, simOutcome, cvPc, cvRet, client, localFile,
                   predVars, setupVars>>

\* lines 99-112
SecondConvert ==
    /\ other.pc = "averaged"
    /\ IF ~Exists(kerasFile)
       THEN other' = [other EXCEPT !.pc = "raised"]
       ELSE \E converts \in BOOLEAN :
              other' = IF converts
                       THEN [other EXCEPT !.pc = "converted",
                                          !.model = Convert(load_model(kerasFile))]
                       ELSE [other EXCEPT !.pc = "raised"]
    /\ UNCHANGED <<aggVars, fileVars, hybridVars, kfaVars, serverVars,
                   simOutcome, cvPc, cvRet, client, localFile,
                   predVars, setupVars>>

\* line 115
SecondOpen ==
    /\ other.pc = "converted"
    /\ tfliteFile' = File(<<>>)
    /\ other' = [other EXCEPT !.pc = "opened"]
    /\ UNCHANGED <<aggVars, kerasFile, servedFile, kerasRound, tfliteRound,
                   hybridVars, kfaVars, serverVars, simOutcome, cvPc, cvRet,
                   client, localFile,
                   predVars, setupVars>>

\* lines 116-120 and 152
SecondWrite ==
    /\ other.pc = "opened"
    /\ \E n \in 0..Len(other.model) :
         /\ tfliteFile' = File(Overlay(Content(tfliteFile), SubSeq(other.model, 1, n)))
         /\ IF n = Len(other.model)
            THEN /\ other' = [other EXCEPT !.pc = "returned"]
                 /\ tfliteRound' = other.round
                 /\ roundsDone' = roundsDone + 1
            ELSE /\ other' = [other EXCEPT !.pc = "raised"]
                 /\ UNCHANGED <<tfliteRound, roundsDone>>
    /\ UNCHANGED <<aggVars, kerasFile, servedFile, kerasRound, hpc, hRet, hRound,
                   pre, tfliteModel, kfaVars, serverVars, simOutcome, cvPc, cvRet,
                   client, localFile,
                   predVars, setupVars>>

SecondFinish ==
    /\ other.pc \in {"returned", "raised"}
    /\ other' = NoOther
    /\ UNCHANGED <<aggVars, fileVars, hybridVars, kfaVars, serverVars,
                   simOutcome, cvPc, cvRet, client, localFile,
                   predVars, setupVars>>

(***************************************************************************)
(* main.py as a process.                                                   *)
(***************************************************************************)
\* lines 29-38 and 86-89: the module is imported; it raises when the
\* .tflite file is not there
ServerStart ==
    /\ serverState = "down"
    /\ IF Exists(servedFile)
       THEN /\ serverState' = "running"
            /\ stats' = [k \in {"total_clients"} |-> 0]
       ELSE /\ serverState' = "crashed"
            /\ UNCHANGED stats
    /\ UNCHANGED <<aggVars, fileVars, hybridVars, kfaVars, resp, download,
                   simOutcome, extVars>>

GetModelInfo ==
    /\ serverState = "running"
    /\ resp' = get_model_info @@ [after |-> roundsDone]
    /\ UNCHANGED <<aggVars, fileVars, hybridVars, kfaVars, serverState, stats,
                   download, simOutcome, extVars>>

GetGlobalModel ==
    /\ serverState = "running"
    /\ download' = get_global_model @@
                      [after |-> roundsDone, overlap |-> hpc \in Publishing]
    /\ UNCHANGED <<aggVars, fileVars, hybridVars, kfaVars, serverState, stats,
                   resp, simOutcome, extVars>>

\* the body taken from global_model.tflite, the file a round writes
StreamBody_GlobalFile ==
    /\ serverState = "running"
    /\ download.status = 200
    /\ download.body = Absent
    /\ Exists(tfliteFile)
    /\ download' = [download EXCEPT !.body = File(Content(tfliteFile))]
    /\ UNCHANGED <<aggVars, fileVars, hybridVars, kfaVars, serverState, stats,
                   resp, simOutcome, extVars>>

\* FileResponse sends the file at the path as the body of the answer
StreamBody ==
    /\ serverState = "running"
    /\ download.status = 200
    /\ download.body = Absent
    /\ Exists(servedFile)
    /\ download' = [download EXCEPT !.body = File(Content(servedFile))]
    /\ UNCHANGED <<aggVars, fileVars, hybridVars, kfaVars, serverState, stats,
                   resp, simOutcome, extVars>>

(***************************************************************************)
(* test_model_update.py run as a script: the client of the two handlers.   *)
(***************************************************************************)
NoClient == [pc |-> "start", model_info |-> NoResp, dl |-> NoResp,
             local_hash |-> <<>>, verdict |-> "none", differs |-> FALSE]

\* hashlib.sha256 of the local model file, <<>> for None when there is none
LocalHash == IF Exists(localFile) THEN Sha256(Content(localFile)) ELSE <<>>

\* line 95, test_model_info_endpoint: the data of a 200 answer, else None
ClientModelInfo ==
    /\ client.pc = "start"
    /\ client' = [client EXCEPT
                    !.pc = "info",
                    !.model_info = IF serverState = "running" /\ get_model_info.status = 200
                                   THEN get_model_info ELSE NoResp]
    /\ UNCHANGED <<aggVars, fileVars, hybridVars, kfaVars, serverVars,
                   simOutcome, other, cvPc, cvRet, localFile,
                   predVars, setupVars>>

\* line 98, test_model_download: called whatever /model_info said; the
\* bytes received are hashed and compared with the header, and dropped
ClientDownload ==
    /\ client.pc = "info"
    /\ client' = [client EXCEPT
                    !.pc = "downloaded",
                    !.differs = (client.model_info.status = 200
                                   /\ LocalHash # client.model_info.model_hash),
                    !.dl = IF serverState = "running" /\ get_global_model.status = 200
                           THEN [status |-> 200,
                                 ModelHash |-> get_global_model.ModelHash,
                                 verified |-> Sha256(Content(servedFile))
                                                = get_global_model.ModelHash]
                           ELSE NoResp]
    /\ UNCHANGED <<aggVars, fileVars, hybridVars, kfaVars, serverVars,
                   simOutcome, other, cvPc, cvRet, localFile,
                   predVars, setupVars>>

\* line 101, verify_local_model
ClientVerifyLocal ==
    /\ client.pc = "downloaded"
    /\ client' = [client EXCEPT !.pc = "verified", !.local_hash = LocalHash]
    /\ UNCHANGED <<aggVars, fileVars, hybridVars, kfaVars, serverVars,
                   simOutcome, other, cvPc, cvRet, localFile,
                   predVars, setupVars>>

\* lines 104-117: the two hashes are compared and the result is printed
ClientCompare ==
    /\ client.pc = "verified"
    /\ client' = [client EXCEPT
                    !.pc = "done",
                    !.verdict = IF client.model_info.status = 200 /\ client.local_hash # <<>>
                                THEN IF client.model_info.model_hash = client.local_hash
                                     THEN "matches" ELSE "update_available"
                                ELSE "none"]
    /\ UNCHANGED <<aggVars, fileVars, hybridVars, kfaVars, serverVars,
                   simOutcome, other, cvPc, cvRet, localFile,
                   predVars, setupVars>>

(***************************************************************************)
(* main.py: /predict on the one shared interpreter.                        *)
(* An image is one pixel value (or bytes PIL cannot open); the model's     *)
(* output for a pair of images is a pair of scores that the pair of        *)
(* images decides.  predict is an async handler: it gives way to other     *)
(* requests only at its two awaits (lines 133 and 134): the event loop     *)
(* runs one coroutine at a time, from one await to the next or to the end. *)
(***************************************************************************)
Requests == {1, 2}

Pixels == {0, 1}

ContentTypes == {"image/png", "text/plain"}

\* content_type.startswith('image/')
IsImage(content_type) == content_type \in {"image/png"}

NoPredEnv == [started |-> FALSE, tf_available |-> FALSE, loaded |-> FALSE,
              input_count |-> 0, tensors |-> <<>>, output |-> <<>>,
              running |-> 0]

\* the event loop can run the coroutine of request r: no other coroutine
\* is between two of its awaits
Runnable(r) == predEnv.running \in {0, r}

NoReqs == [r \in Requests |->
             [pc |-> "new", ct1 |-> "", ct2 |-> "", t1 |-> 0, t2 |-> 0,
              opens |-> TRUE, resp |-> NoResp]]

\* interpreter.invoke(): the [no_modic, modic] row for the tensors set
Invoke(tensors) ==
    IF Len(tensors) = 2 THEN <<tensors[1], tensors[2]>>
    ELSE <<tensors[1][1], tensors[1][2]>>

\* the input tensors of a request: one per image for a model of two
\* inputs, the stacked pair for a model of one
TensorsOf(input_count, t1, t2) ==
    IF input_count = 2 THEN <<t1, t2>> ELSE << <<t1, t2>> >>

\* a tie answered "Modic"
predict_label_Geq(no_modic_score, modic_score) ==
    IF modic_score >= no_modic_score
    THEN [label |-> "Modic", confidence |-> modic_score]
    ELSE [label |-> "No Modic", confidence |-> no_modic_score]

\* lines 181-187: the label and the confidence
predict_label(no_modic_score, modic_score) ==
    IF modic_score > no_modic_score
    THEN [label |-> "Modic", confidence |-> modic_score]
    ELSE [label |-> "No Modic", confidence |-> no_modic_score]

\* lines 191-205: the result of a successful prediction
predict_result(output, overlapped) ==
    LET d == predict_label(output[1], output[2])
    IN  [status |-> 200,
         prediction |-> d.confidence,
         label |-> d.label,
         confidence |-> d.confidence,
         detailed_scores |-> [no_modic |-> output[1], modic |-> output[2]],
         model_version |-> ToString(StatsGet("total_aggregations", 0)),
         overlapped |-> overlapped]

HTTPException(status_code, detail) == [status |-> status_code, detail |-> detail]

\* lines 21-27 and 40-62: TensorFlow is imported or not, and the
\* interpreter is loaded from the served file or left None
PredictorStart ==
    /\ serverState = "running"
    /\ ~predEnv.started
    /\ \E tf \in BOOLEAN, loads \in BOOLEAN, input_count \in {1, 2} :
         predEnv' = [started |-> TRUE, tf_available |-> tf,
                     loaded |-> tf /\ loads,
                     input_count |-> IF tf /\ loads THEN input_count ELSE 0,
                     tensors |-> <<>>, output |-> <<>>, running |-> 0]
    /\ UNCHANGED <<aggVars, fileVars, hybridVars, kfaVars, serverVars,
                   simOutcome, other, cvPc, cvRet, client, localFile, reqs,
                   setupVars>>

\* lines 105-133: the request comes in; 503 without TensorFlow or model;
\* inside the try a bad content type raises HTTPException(400), which the
\* except Exception of line 210 catches and raises again as 500; else the
\* handler awaits the first upload
PredictStart(r) ==
    /\ predEnv.started
    /\ Runnable(r)
    /\ reqs[r].pc = "new"
    /\ \E ct1 \in ContentTypes, ct2 \in ContentTypes, t1 \in Pixels,
          t2 \in Pixels, opens \in BOOLEAN :
         LET q == [reqs[r] EXCEPT !.ct1 = ct1, !.ct2 = ct2, !.t1 = t1,
                                  !.t2 = t2, !.opens = opens]
             answer(a) == [q EXCEPT !.pc = "done", !.resp = a]
         IN  reqs' = [reqs EXCEPT ![r] =
                 IF ~predEnv.tf_available
                 THEN answer(HTTPException(503, "TensorFlow not available on server"))
                 ELSE IF ~predEnv.loaded
                 THEN answer(HTTPException(503, "Prediction model not loaded on server"))
                 ELSE IF ~IsImage(ct1)
                 THEN answer(HTTPException(500, "Prediction failed: T1 file must be an image"))
                 ELSE IF ~IsImage(ct2)
                 THEN answer(HTTPException(500, "Prediction failed: T2 file must be an image"))
                 ELSE [q EXCEPT !.pc = "read_t1"]]
    /\ UNCHANGED <<aggVars, fileVars, hybridVars, kfaVars, serverVars,
                   simOutcome, other, cvPc, cvRet, client, localFile, predEnv,
                   setupVars>>

\* line 134: the first upload is read; the handler awaits the second
PredictRead(r) ==
    /\ Runnable(r)
    /\ reqs[r].pc = "read_t1"
    /\ reqs' = [reqs EXCEPT ![r].pc = "read_t2"]
    /\ UNCHANGED <<aggVars, fileVars, hybridVars, kfaVars, serverVars,
                   simOutcome, other, cvPc, cvRet, client, localFile, predEnv,
                   setupVars>>

\* set_tensor followed by an await: the loop is given to other requests
PredictSet_Yields(r) ==
    /\ Runnable(r)
    /\ reqs[r].pc = "read_t2"
    /\ IF ~reqs[r].opens
       THEN /\ reqs' = [reqs EXCEPT
                          ![r].pc = "done",
                          ![r].resp = HTTPException(500, "Prediction failed: cannot identify image file")]
            /\ UNCHANGED predEnv
       ELSE /\ predEnv' = [predEnv EXCEPT
                             !.tensors = TensorsOf(predEnv.input_count, reqs[r].t1, reqs[r].t2),
                             !.running = 0]
            /\ reqs' = [reqs EXCEPT ![r].pc = "set"]
    /\ UNCHANGED <<aggVars, fileVars, hybridVars, kfaVars, serverVars,
                   simOutcome, other, cvPc, cvRet, client, localFile, setupVars>>

\* lines 136-171, resumed after the second await: the images are opened
\* (an exception is answered 500 by lines 210-212) and the input tensors
\* of the shared interpreter are set; no await follows, the coroutine
\* keeps the loop
PredictSet(r) ==
    /\ Runnable(r)
    /\ reqs[r].pc = "read_t2"
    /\ IF ~reqs[r].opens
       THEN /\ reqs' = [reqs EXCEPT
                          ![r].pc = "done",
                          ![r].resp = HTTPException(500, "Prediction failed: cannot identify image file")]
            /\ UNCHANGED predEnv
       ELSE /\ predEnv' = [predEnv EXCEPT
                             !.tensors = TensorsOf(predEnv.input_count, reqs[r].t1, reqs[r].t2),
                             !.running = r]
            /\ reqs' = [reqs EXCEPT ![r].pc = "set"]
    /\ UNCHANGED <<aggVars, fileVars, hybridVars, kfaVars, serverVars,
                   simOutcome, other, cvPc, cvRet, client, localFile, setupVars>>

\* line 174: the interpreter computes its output from the tensors set
PredictInvoke(r) ==
    /\ Runnable(r)
    /\ reqs[r].pc = "set"
    /\ predEnv' = [predEnv EXCEPT !.output = Invoke(predEnv.tensors)]
    /\ reqs' = [reqs EXCEPT ![r].pc = "invoked"]
    /\ UNCHANGED <<aggVars, fileVars, hybridVars, kfaVars, serverVars,
                   simOutcome, other, cvPc, cvRet, client, localFile, setupVars>>

\* lines 177-208: the output is read, the result built and returned; the
\* coroutine ends and the loop is free
PredictGet(r) ==
    /\ Runnable(r)
    /\ reqs[r].pc = "invoked"
    /\ LET overlapped == \E q \in Requests \ {r} : reqs[q].pc \notin {"new", "done"}
       IN  reqs' = [reqs EXCEPT ![r].pc = "done",
                                ![r].resp = predict_result(predEnv.output, overlapped)]
    /\ predEnv' = [predEnv EXCEPT !.running = 0]
    /\ UNCHANGED <<aggVars, fileVars, hybridVars, kfaVars, serverVars,
                   simOutcome, other, cvPc, cvRet, client, localFile, setupVars>>

(***************************************************************************)
(* setup_production_models.py.  KERAS_MODEL_PATH and TFLITE_MODEL_PATH are *)
(* final_model.keras and global_model.tflite of the server directory.      *)
(***************************************************************************)
\* how a shutil.copy2 ends: done, refused before the target is opened, or
\* cut short after it was
CopyOutcomes == {"ok", "refused", "cut"}

\* the model bundled in the app's assets before any sync
AppModel == WeightsOf("w", 1, 1)

Cut(bytes) == SubSeq(bytes, 1, Len(bytes) \div 2)

\* shutil.copy2(src, dst): whether it raised, and the file at dst after it
copy2(src, dst, how) ==
    IF how = "ok" THEN [raised |-> FALSE, dst |-> src]
    ELSE IF how = "refused" THEN [raised |-> TRUE, dst |-> dst]
    ELSE [raised |-> TRUE, dst |-> File(Cut(Content(src)))]

\* sync_client_model(): what it returns and the two files it leaves, when
\* the backup copy ends as hb and the copy of the global model as hc
sync_client_model(global, clientModel, backup, hb, hc) ==
    IF ~Exists(global)
    THEN [ret |-> FALSE, client |-> clientModel, backup |-> backup]
    ELSE LET b == IF Exists(clientModel) /\ ~Exists(backup)
                  THEN copy2(clientModel, backup, hb)
                  ELSE [raised |-> FALSE, dst |-> backup]
             c == copy2(global, clientModel, hc)
         IN  IF b.raised
             THEN [ret |-> FALSE, client |-> clientModel, backup |-> b.dst]
             ELSE [ret |-> ~c.raised, client |-> c.dst, backup |-> b.dst]

\* the client model a sync meets at line 89, kept from the first that did
FirstClientSeen ==
    IF firstClient = Absent /\ Exists(tfliteFile) /\ Exists(clientFile)
    THEN clientFile ELSE firstClient

\* a call sync_client_model()
SyncCall ==
    /\ setup.pc \in {"start", "done"}
    /\ \E hb \in CopyOutcomes, hc \in CopyOutcomes :
         LET r == sync_client_model(tfliteFile, clientFile, backupFile, hb, hc)
         IN  /\ clientFile' = r.client
             /\ backupFile' = r.backup
    /\ firstClient' = FirstClientSeen
    /\ UNCHANGED <<aggVars, fileVars, hybridVars, kfaVars, serverVars,
                   simOutcome, other, cvPc, cvRet, client, localFile, predVars,
                   manifestFile, setup>>

NoSetup == [pc |-> "start", steps |-> <<>>, verified |-> "none",
            initialized |-> "none", sync_success |-> "none", ret |-> "none"]

PyBool(b) == IF b THEN "True" ELSE "False"

\* verify_model_compatibility(): both files are there and load
verify_model_compatibility(loads) ==
    /\ Exists(kerasFile)
    /\ Exists(clientFile)
    /\ loads
    /\ ~IsPartial(Content(clientFile))

\* lines 150-152
SetupVerify ==
    /\ setup.pc = "start"
    /\ \E loads \in BOOLEAN :
         LET okay == verify_model_compatibility(loads)
         IN  setup' = [setup EXCEPT !.steps = Append(@, "verify"),
                                    !.verified = PyBool(okay),
                                    !.pc = IF okay THEN "verified" ELSE "done",
                                    !.ret = IF okay THEN @ ELSE "False"]
    /\ UNCHANGED <<aggVars, fileVars, hybridVars, kfaVars, serverVars,
                   simOutcome, other, cvPc, cvRet, client, localFile, predVars,
                   clientFile, backupFile, manifestFile, firstClient>>

\* lines 155-157: initialize_global_tflite() calls convert_keras_to_tflite
\* and answers False when it raises
SetupInitialize ==
    /\ setup.pc = "verified"
    /\ \E converts \in BOOLEAN, n \in 0..Len(TFLiteOf(ShippedModel)) :
         LET r == convert_keras_to_tflite(kerasFile, tfliteFile, converts, n)
             okay == r.status = "ok"
         IN  /\ tfliteFile' = r.tflite
             /\ setup' = [setup EXCEPT !.steps = Append(@, "initialize"),
                                       !.initialized = PyBool(okay),
                                       !.pc = IF okay THEN "initialized" ELSE "done",
                                       !.ret = IF okay THEN @ ELSE "False"]
    /\ UNCHANGED <<aggVars, kerasFile, servedFile, kerasRound, tfliteRound,
                   hybridVars, kfaVars, serverVars, simOutcome, other, cvPc,
                   cvRet, client, localFile, predVars, clientFile, backupFile,
                   manifestFile, firstClient>>

\* a failed sync ending the setup with False
SetupSync_StopsOnFailure ==
    /\ setup.pc = "initialized"
    /\ \E hb \in CopyOutcomes, hc \in CopyOutcomes :
         LET r == sync_client_model(tfliteFile, clientFile, backupFile, hb, hc)
         IN  /\ clientFile' = r.client
             /\ backupFile' = r.backup
             /\ setup' = [setup EXCEPT !.steps = Append(@, "sync"),
                                       !.sync_success = PyBool(r.ret),
                                       !.pc = IF r.ret THEN "synced" ELSE "done",
                                       !.ret = IF r.ret THEN @ ELSE "False"]
    /\ firstClient' = FirstClientSeen
    /\ UNCHANGED <<aggVars, fileVars, hybridVars, kfaVars, serverVars,
                   simOutcome, other, cvPc, cvRet, client, localFile, predVars,
                   manifestFile>>

\* lines 160-164: sync_client_model(); its result is only printed
SetupSync ==
    /\ setup.pc = "initialized"
    /\ \E hb \in CopyOutcomes, hc \in CopyOutcomes :
         LET r == sync_client_model(tfliteFile, clientFile, backupFile, hb, hc)
         IN  /\ clientFile' = r.client
             /\ backupFile' = r.backup
             /\ setup' = [setup EXCEPT !.steps = Append(@, "sync"),
                                       !.sync_success = PyBool(r.ret),
                                       !.pc = "synced"]
    /\ firstClient' = FirstClientSeen
    /\ UNCHANGED <<aggVars, fileVars, hybridVars, kfaVars, serverVars,
                   simOutcome, other, cvPc, cvRet, client, localFile, predVars,
                   manifestFile>>

\* create_model_manifest(): which of the three model files exist
create_model_manifest ==
    [keras_model |-> [path |-> "final_model.keras", exists |-> Exists(kerasFile)],
     global_tflite |-> [path |-> "global_model.tflite", exists |-> Exists(tfliteFile)],
     client_tflite |-> [path |-> "app/src/main/assets/modic_model.tflite",
                        exists |-> Exists(clientFile)]]

\* lines 167-184: the manifest is written, the summary printed, True returned
SetupManifest ==
    /\ setup.pc = "synced"
    /\ manifestFile' = File(create_model_manifest)
    /\ setup' = [setup EXCEPT !.steps = Append(@, "manifest"),
                              !.pc = "done", !.ret = "True"]
    /\ UNCHANGED <<aggVars, fileVars, hybridVars, kfaVars, serverVars,
                   simOutcome, other, cvPc, cvRet, client, localFile, predVars,
                   clientFile, backupFile, firstClient>>

(***************************************************************************)
(* realtime_simulation.py: one round of simulate_real_time_fl.             *)
(***************************************************************************)
\* "need >= 2" of the simulation
MinParticipants == 2

\* the routes main.py declares
Routes == {"/predict", "/model_info", "/get_global_model", "/status", "/", "/health"}

\* lines 104-123: with enough uploads it posts /aggregate, else it waits
SimulateRound ==
    /\ \E successful_uploads \in 0..MaxInputs :
         simOutcome' =
            IF successful_uploads >= MinParticipants
            THEN IF serverState # "running" THEN "aggregation_error"
                 ELSE IF "/aggregate" \in Routes THEN "aggregation_completed"
                 ELSE "aggregation_failed_404"
            ELSE "not_enough_participants"
    /\ UNCHANGED <<aggVars, fileVars, hybridVars, kfaVars, serverVars, extVars>>

(***************************************************************************)
(* Specifications.                                                         *)
(***************************************************************************)
\* the uploads of the server model: one key each, all of one shape
RoundFiles ==
    { f \in NpzFiles : Len(f) = 1 /\ f[1].a.shape = <<1>> /\ f[1].a.data = <<1>> }

IdleRest ==
    /\ aggPc = "ready"
    /\ aggRet = NoRet
    /\ kerasRound = 0
    /\ tfliteRound = 0
    /\ hpc = "idle"
    /\ hRet = NoHRet
    /\ hRound = 0
    /\ roundsDone = 0
    /\ pre = NoSnapshot
    /\ tfliteModel = <<>>
    /\ kfaPc = "ready"
    /\ kfaRet = NoCall
    /\ serverState = "down"
    /\ stats = [k \in {} |-> 0]
    /\ resp = NoResp
    /\ download = NoResp
    /\ simOutcome = "none"
    /\ other = NoOther
    /\ cvPc = "ready"
    /\ cvRet = NoCv
    /\ client = NoClient
    /\ predEnv = NoPredEnv
    /\ reqs = NoReqs
    /\ backupFile = Absent
    /\ manifestFile = Absent
    /\ firstClient = Absent
    /\ setup = NoSetup

Init ==
    /\ uploads \in SeqsUpTo(RoundFiles, MaxInputs)
    /\ outNpz = Absent
    /\ kerasFile \in {Absent} \cup { File(KerasFileOf(w)) : w \in KerasModels }
    /\ tfliteFile \in {Absent, File(TFLiteOf(ShippedModel))}
    /\ servedFile \in {Absent, File(TFLiteOf(ShippedModel))}
    /\ localFile = Absent
    /\ clientFile = Absent
    /\ IdleRest

Next ==
    \/ HybridStart
    \/ HybridAverage
    \/ HybridConvert
    \/ HybridOpen
    \/ HybridWrite
    \/ HybridFinish
    \/ ServerStart
    \/ GetModelInfo
    \/ GetGlobalModel
    \/ StreamBody
    \/ SimulateRound

Spec == Init /\ [][Next]_vars

\* the functions of server_aggregate.py called one by one
NextLib ==
    \/ AggregateCall
    \/ KerasFedAvgCall
    \/ HybridStart
    \/ HybridAverage
    \/ HybridConvert
    \/ HybridOpen
    \/ HybridWrite
    \/ HybridFinish

InitLib == Init /\ servedFile = Absent

SpecLib == InitLib /\ [][NextLib]_vars

\* two callers of hybrid_fl_aggregation at once
NextConc ==
    \/ HybridStart
    \/ HybridAverage
    \/ HybridConvert
    \/ HybridOpen
    \/ HybridWrite
    \/ HybridFinish
    \/ SecondStart
    \/ SecondAverage
    \/ SecondConvert
    \/ SecondOpen
    \/ SecondWrite
    \/ SecondFinish

SpecConc == InitLib /\ [][NextConc]_vars

\* convert_keras_to_tflite called on its own, after
\* keras_federated_averaging or not
NextConv ==
    \/ ConvertCall
    \/ KerasFedAvgCall

SpecConv == InitLib /\ [][NextConv]_vars

\* the server and one run of test_model_update.py
InitClient ==
    /\ uploads = <<>>
    /\ outNpz = Absent
    /\ kerasFile \in {Absent} \cup { File(KerasFileOf(w)) : w \in KerasModels }
    /\ tfliteFile \in {Absent, File(TFLiteOf(ShippedModel))}
    /\ servedFile \in {Absent, File(TFLiteOf(ShippedModel))}
    /\ localFile \in {Absent} \cup { File(TFLiteOf(w)) : w \in KerasModels \cup {ShippedModel} }
    /\ clientFile = Absent
    /\ IdleRest

NextClient ==
    \/ ServerStart
    \/ GetModelInfo
    \/ GetGlobalModel
    \/ StreamBody
    \/ ClientModelInfo
    \/ ClientDownload
    \/ ClientVerifyLocal
    \/ ClientCompare

SpecClient == InitClient /\ [][NextClient]_vars

\* the server answering /predict requests
InitPredict ==
    /\ uploads = <<>>
    /\ outNpz = Absent
    /\ kerasFile = Absent
    /\ tfliteFile = Absent
    /\ servedFile \in {Absent, File(TFLiteOf(ShippedModel))}
    /\ localFile = Absent
    /\ clientFile = Absent
    /\ IdleRest

NextPredict ==
    \/ ServerStart
    \/ PredictorStart
    \/ \E r \in Requests : PredictStart(r)
    \/ \E r \in Requests : PredictRead(r)
    \/ \E r \in Requests : PredictSet(r)
    \/ \E r \in Requests : PredictInvoke(r)
    \/ \E r \in Requests : PredictGet(r)

SpecPredict == InitPredict /\ [][NextPredict]_vars

\* production_model_setup and calls of sync_client_model
InitSetup ==
    /\ uploads = <<>>
    /\ outNpz = Absent
    /\ kerasFile \in {Absent} \cup { File(KerasFileOf(w)) : w \in KerasModels }
    /\ tfliteFile \in {Absent, File(TFLiteOf(ShippedModel))}
    /\ servedFile = Absent
    /\ localFile = Absent
    /\ clientFile \in {Absent, File(TFLiteOf(AppModel))}
    /\ IdleRest

NextSetup ==
    \/ SyncCall
    \/ SetupVerify
    \/ SetupInitialize
    \/ SetupSync
    \/ SetupManifest

SpecSetup == InitSetup /\ [][NextSetup]_vars

\* the three uploads w=[1,2], w=[3,4] and w=[5,6]
ScenarioFile(a, b) ==
    << [k |-> "w", a |-> [shape |-> <<2>>, data |-> <<a, b>>, dtype |-> "float32"]] >>

ScenarioFiles == { ScenarioFile(1, 2), ScenarioFile(3, 4), ScenarioFile(5, 6) }

\* aggregate_npz_files over every list of those uploads
InitScen ==
    /\ uploads \in SeqsUpTo(ScenarioFiles, MaxInputs)
    /\ outNpz \in {Absent, File(StaleNpz)}
    /\ kerasFile = Absent
    /\ tfliteFile = Absent
    /\ servedFile = Absent
    /\ localFile = Absent
    /\ clientFile = Absent
    /\ IdleRest

NextScen == AggregateCall

SpecScen == InitScen /\ [][NextScen]_vars

\* client files of one key each, whose keys and shapes may differ
MixedFiles ==
    { f \in NpzFiles : Len(f) = 1 /\ \A j \in 1..Len(f[1].a.data) : f[1].a.data[j] = 1 }

\* hybrid_fl_aggregation alone, over every list of such files
InitHybrid ==
    /\ uploads \in SeqsUpTo(MixedFiles, MaxInputs)
    /\ outNpz = Absent
    /\ kerasFile \in {Absent} \cup { File(KerasFileOf(w)) : w \in KerasModels }
    /\ tfliteFile \in {Absent, File(TFLiteOf(ShippedModel))}
    /\ servedFile = Absent
    /\ localFile = Absent
    /\ clientFile = Absent
    /\ IdleRest

NextHybrid ==
    \/ HybridStart
    \/ HybridAverage
    \/ HybridConvert
    \/ HybridOpen
    \/ HybridWrite
    \/ HybridFinish

SpecHybrid == InitHybrid /\ [][NextHybrid]_vars

\* aggregate_npz_files alone, over every list of uploads
InitAgg ==
    /\ uploads \in SeqsUpTo(NpzFiles, MaxInputs)
    /\ outNpz \in {Absent, File(StaleNpz)}
    /\ kerasFile = Absent
    /\ tfliteFile = Absent
    /\ servedFile = Absent
    /\ localFile = Absent
    /\ clientFile = Absent
    /\ IdleRest

NextAgg == AggregateCall

SpecAgg == InitAgg /\ [][NextAgg]_vars

(***************************************************************************)
(* Claims about aggregate_npz_files (checked under SpecAgg).               *)
(***************************************************************************)
N == Len(uploads)

\* every input has the key sequence of every other and, per key, its shape
SameSignature ==
    \A i, j \in 1..N :
        /\ KeysOf(uploads[i]) = KeysOf(uploads[j])
        /\ \A x \in 1..Len(uploads[i]) : uploads[i][x].a.shape = uploads[j][x].a.shape

RECURSIVE TotalAt(_, _, _)
\* the sum over the inputs in I of element j of the array of key k
TotalAt(I, k, j) ==
    IF I = {} THEN 0
    ELSE LET i == CHOOSE x \in I : TRUE
         IN  Get(uploads[i], k).data[j] + TotalAt(I \ {i}, k, j)

\* C1: after aggregate_npz_files returns for a non-empty list of inputs that
\* all have the same key sequence and, per key, the same shape, the output
\* file holds exactly those keys and, for every key, an array of that shape
\* whose every element is the arithmetic mean of the inputs' elements.
C1_MeanOfInputs ==
    (aggPc = "returned" /\ N > 0 /\ SameSignature) =>
        /\ aggRet.status = "ok"
        /\ Exists(outNpz)
        /\ KeysOf(Content(outNpz)) = KeysOf(uploads[1])
        /\ \A x \in 1..Len(uploads[1]) :
              LET k == Content(outNpz)[x].k
                  a == Content(outNpz)[x].a
              IN  /\ a.shape = uploads[1][x].a.shape
                  /\ Len(a.data) = Len(uploads[1][x].a.data)
                  /\ \A j \in 1..Len(a.data) :
                        /\ a.data[j][2] > 0
                        /\ a.data[j][1] * N = a.data[j][2] * TotalAt(1..N, k, j)

\* C1 witness: three inputs of one signature that are not all equal have
\* been averaged, and some mean is not an integer.
C1_Witness ==
    /\ aggPc = "returned" /\ N = 3 /\ SameSignature
    /\ uploads[1] # uploads[2]
    /\ aggRet.status = "ok"
    /\ \E x \in 1..Len(Content(outNpz)) :
          \E j \in 1..Len(Content(outNpz)[x].a.data) :
              Content(outNpz)[x].a.data[j][2] = 3

Perms(n) == { p \in [1..n -> 1..n] : \A i, j \in 1..n : p[i] = p[j] => i = j }

\* C2: the call on any permutation of the input list ends as the call on
\* the list did (both succeed or both raise) and, when it succeeds, gives
\* the same array for every key.
C2_OrderIndependent ==
    (aggPc = "returned") =>
        \A p \in Perms(N) :
            LET r == aggregate_npz_files(uploads, p)
            IN  /\ r.status = aggRet.status
                /\ r.status = "ok" =>
                      \A k \in { aggRet.out[x].k : x \in 1..Len(aggRet.out) } :
                          Get(r.out, k) = Get(aggRet.out, k)

\* C2 witness: a successful call on three inputs, no two of them equal.
C2_Witness ==
    /\ aggPc = "returned" /\ N = 3 /\ aggRet.status = "ok"
    /\ uploads[1] # uploads[2] /\ uploads[2] # uploads[3] /\ uploads[1] # uploads[3]

\* input i has another key set than the first input, or another shape for
\* one of the keys
DiffersFromBaseline(i) ==
    \/ { uploads[i][x].k : x \in 1..Len(uploads[i]) }
         # { uploads[1][x].k : x \in 1..Len(uploads[1]) }
    \/ \E x \in 1..Len(uploads[i]), y \in 1..Len(uploads[1]) :
         /\ uploads[i][x].k = uploads[1][y].k
         /\ uploads[i][x].a.shape # uploads[1][y].a.shape

\* C8: a call whose inputs include one that differs from the first input in
\* its key set or in a shape raises ValueError, and leaves the input files
\* and the output file as they were.
C8_SchemaRejection ==
    [][ (aggPc = "ready" /\ aggPc' = "returned"
            /\ \E i \in 2..N : DiffersFromBaseline(i)) =>
          (/\ aggRet'.status = "ValueError"
           /\ ~aggRet'.wrote
           /\ uploads' = uploads
           /\ outNpz' = outNpz) ]_vars

\* C8 witness: a call was refused for a shape that differs, the key
\* sequences being equal, with the earlier output file still in place.
C8_Witness ==
    /\ aggPc = "returned" /\ N >= 2
    /\ \A i \in 1..N : KeysOf(uploads[i]) = KeysOf(uploads[1])
    /\ \E i \in 2..N : DiffersFromBaseline(i)
    /\ aggRet.status = "ValueError"
    /\ outNpz = File(StaleNpz)

(***************************************************************************)
(* Claims about the rounds and the server (checked under Spec; C9 under *)
(* SpecLib).                                                               *)
(***************************************************************************)
\* C3: whenever /model_info and /get_global_model have both answered 200,
\* the SHA-256 of the bytes /get_global_model sent equals the model_hash
\* /model_info gave, and equals its own Model-Hash header: before and after
\* every round that hybrid_fl_aggregation completes.
C3_DigestIntegrity ==
    (resp.status = 200 /\ download.status = 200 /\ Exists(download.body)) =>
        /\ Sha256(Content(download.body)) = resp.model_hash
        /\ Sha256(Content(download.body)) = download.ModelHash

\* C3 witness: a round has just returned, and both answers were given
\* after it.
C3_Witness ==
    /\ hpc = "returned" /\ roundsDone >= 1
    /\ Exists(tfliteFile) /\ Exists(servedFile)
    /\ Content(tfliteFile) # Content(servedFile)
    /\ resp.status = 200 /\ resp.after = roundsDone
    /\ download.status = 200 /\ download.after = roundsDone
    /\ Exists(download.body)

\* C4 (as claimed): the version /model_info and /get_global_model report is
\* the number of rounds that have succeeded.
C4_VersionCountsRounds ==
    (serverState = "running") =>
        /\ get_model_info.status = 200 =>
              get_model_info.model_version = ToString(roundsDone)
        /\ get_global_model.status = 200 =>
              get_global_model.ModelVersion = ToString(roundsDone)

\* C5 (as claimed): when convert_keras_to_tflite raises inside
\* hybrid_fl_aggregation, the two model files and the manifest are as the
\* call found them.
C5_FailedConversionKeepsArtifacts ==
    (hpc = "raised" /\ hRet.stage = "convert") =>
        /\ kerasFile = pre.keras
        /\ tfliteFile = pre.tflite
        /\ get_model_info = pre.info

\* C6 (as claimed): in every state the two model files are of one round,
\* and the .tflite file is a complete model.
C6_ArtifactsSwapTogether ==
    /\ (Exists(kerasFile) /\ Exists(tfliteFile)) => kerasRound = tfliteRound
    /\ Exists(tfliteFile) => ~IsPartial(Content(tfliteFile))

\* C7 (as claimed): a round triggered with exactly one update, fewer than
\* the two the simulation asks for, is refused with InsufficientParticipants
\* and writes no file.
C7_ThresholdGating ==
    (hpc # "idle" /\ Len(uploads) = 1 /\ Len(uploads) < MinParticipants) =>
        /\ hpc = "raised"
        /\ hRet.err = "InsufficientParticipants"
        /\ hRet.wrote = {}

\* C9: called with no updates, aggregate_npz_files,
\* keras_federated_averaging and hybrid_fl_aggregation each raise ValueError
\* having read and written no file, so the files are as they were.
C9_EmptyInputRaisesFirst ==
    (Len(uploads) = 0) =>
        /\ aggPc = "returned" =>
              (aggRet.status = "ValueError" /\ aggRet.read = {} /\ ~aggRet.wrote)
        /\ kfaPc = "returned" =>
              (kfaRet.status = "ValueError" /\ kfaRet.read = {} /\ kfaRet.wrote = {})
        /\ hpc # "idle" =>
              (/\ hpc = "raised" /\ hRet.err = "ValueError"
               /\ hRet.read = {} /\ hRet.wrote = {})
        /\ outNpz = Absent
        /\ kerasRound = 0 /\ tfliteRound = 0
        /\ Exists(tfliteFile) => ~IsPartial(Content(tfliteFile))

\* C9 witness: the three functions have been called with no updates, with
\* no Keras model on disk.
C9_Witness ==
    /\ Len(uploads) = 0
    /\ ~Exists(kerasFile)
    /\ aggPc = "returned" /\ kfaPc = "returned" /\ hpc = "raised"

\* C10 (as claimed): with no .tflite model on disk the server runs and the
\* two handlers answer 404; once a round has published a model they answer
\* 200.
C10_NoModelAnswers404 ==
    (serverState # "down") =>
        /\ serverState = "running"
        /\ ~Exists(servedFile) =>
              (get_model_info.status = 404 /\ get_global_model.status = 404)
        /\ roundsDone >= 1 =>
              (get_model_info.status = 200 /\ get_global_model.status = 200)

(***************************************************************************)
(* Claims about concurrent rounds (SpecConc), downloads and the round's    *)
(* inputs (Spec), the saved element type (SpecAgg), the client script      *)
(* (SpecClient) and convert_keras_to_tflite on its own (SpecConv).         *)
(***************************************************************************)
\* C11 (as claimed): no second call of hybrid_fl_aggregation is running
\* while a first one is: at most one of the two callers is between its
\* start and its end.
C11_OneAggregationInFlight ==
    ~(hpc \in InFlight /\ other.pc \in InFlight)

\* C12: a download that /get_global_model began while a round was
\* replacing global_model.tflite sends the complete bytes of the model that
\* was served when it began, and its Model-Hash header is the SHA-256 of the
\* bytes it sends: no step changes the served file, and every body sent is
\* that file, whole.
C12_DownloadOneVersion ==
    [][ /\ servedFile' = servedFile
        /\ (download'.status = 200 /\ Exists(download'.body)) =>
              /\ Content(download'.body) = Content(servedFile)
              /\ ~IsPartial(Content(download'.body))
              /\ Sha256(Content(download'.body)) = download'.ModelHash ]_vars

\* C12 witness: a download began while a round was between convert() and
\* the end of f.write, its body has been sent, and that round has returned.
C12_Witness ==
    /\ download.status = 200 /\ download.overlap
    /\ Exists(download.body)
    /\ roundsDone > download.after

\* C13 (as claimed): when a round has succeeded no client update is left
\* for a later round to aggregate again.
C13_SuccessConsumesUpdates ==
    (hpc = "returned") => (uploads = <<>>)

\* C14: no step of a round changes the client updates, so after a round
\* that failed in conversion or in writing they are all still there, and
\* every call that gets past its first check has loaded every one of them.
C14_FailedRoundKeepsUpdates ==
    [][ /\ uploads' = uploads
        /\ (hpc' \in InFlight \cup {"returned"}) => (NpzNames \subseteq hRet'.read) ]_vars

\* C14 witness: the first round saved the Keras model and then failed, and
\* the second call has loaded the same two or more updates.
C14_Witness ==
    /\ hRound = 2 /\ roundsDone = 0 /\ kerasRound = 1
    /\ hpc = "loaded" /\ Len(uploads) >= 2
    /\ hRet.read = NpzNames

\* the keys, shapes and values of a weight list, whatever the element type
ValuesOf(w) ==
    [i \in 1..Len(w) |-> [k |-> w[i].k, shape |-> w[i].a.shape, data |-> w[i].a.data]]

\* C15 (as claimed): once keras_federated_averaging has returned in a round,
\* the client weights had the model's keys and shapes (else the round would
\* have failed) and the weights saved in final_model.keras are their mean.
C15_SavedWeightsAreAggregate ==
    (hpc \in {"averaged", "converted", "opened", "returned"}) =>
        /\ KeysMatch(Loaded) /\ ShapesMatch(Loaded)
        /\ KeysOf(Loaded[1]) = KeysOf(Content(kerasFile).weights)
        /\ ValuesOf(Content(kerasFile).weights) = ValuesOf(Averaged(Loaded))

\* C16 (as claimed): every array aggregate_npz_files saves has the element
\* type of the input arrays of its key.
C16_OutputKeepsElementType ==
    (aggPc = "returned" /\ aggRet.status = "ok") =>
        \A x \in 1..Len(uploads[1]) :
            Content(outNpz)[x].a.dtype = uploads[1][x].a.dtype

\* C17: whenever the server runs and /model_info answers 200,
\* /get_global_model answers 200 with headers Model-Version, Model-Hash and
\* Model-Size (in decimal) equal to model_version, model_hash and
\* model_size_bytes; and so are the last answers the two handlers gave.
C17_DownloadMetadataIsManifest ==
    /\ (serverState = "running" /\ get_model_info.status = 200) =>
          /\ get_global_model.status = 200
          /\ get_global_model.ModelVersion = get_model_info.model_version
          /\ get_global_model.ModelHash = get_model_info.model_hash
          /\ get_global_model.ModelSize = ToString(get_model_info.model_size_bytes)
    /\ (resp.status = 200 /\ download.status = 200) =>
          /\ download.ModelVersion = resp.model_version
          /\ download.ModelHash = resp.model_hash
          /\ download.ModelSize = ToString(resp.model_size_bytes)

\* C17 witness: both handlers answered 200 after a round had returned and
\* no call is running.
C17_Witness ==
    /\ serverState = "running" /\ hpc = "idle" /\ roundsDone >= 1
    /\ resp.status = 200 /\ resp.after = roundsDone
    /\ download.status = 200 /\ download.after = roundsDone

C19_StatusCounters ==
    (serverState = "running") =>
        /\ {"total_uploads", "total_clients", "total_aggregations",
            "tflite_model_exists"} \subseteq DOMAIN status
        /\ status["total_aggregations"] = roundsDone

\* C20: a call of convert_keras_to_tflite made while final_model.keras is
\* missing raises FileNotFoundError and leaves global_model.tflite, and the
\* Keras path, exactly as they were.
C20_MissingKerasFailsConversion ==
    [][ (cvPc = "ready" /\ cvPc' = "returned" /\ ~Exists(kerasFile)) =>
          (/\ cvRet'.status = "FileNotFoundError"
           /\ tfliteFile' = tfliteFile
           /\ kerasFile' = kerasFile) ]_vars

\* C20 witness: the call has raised FileNotFoundError with a complete
\* .tflite model on disk and no Keras model.
C20_Witness ==
    /\ cvPc = "returned" /\ cvRet.status = "FileNotFoundError"
    /\ ~Exists(kerasFile)
    /\ tfliteFile = File(TFLiteOf(ShippedModel))

(***************************************************************************)
(* Claims about the served model (Spec), the inputs a call aggregates      *)
(* (SpecScen, SpecAgg, SpecHybrid), /predict (SpecPredict) and the         *)
(* production setup (SpecSetup).                                           *)
(***************************************************************************)
\* C21 (as claimed): when hybrid_fl_aggregation has returned, the model
\* /model_info describes and /get_global_model serves is the .tflite model
\* that call wrote.
C21_ServedIsRoundsArtifact ==
    (hpc = "returned" /\ serverState = "running") =>
        /\ get_model_info.status = 200
        /\ get_model_info.model_hash = Sha256(tfliteModel)
        /\ get_global_model.ModelHash = Sha256(tfliteModel)
        /\ Content(servedFile) = tfliteModel

\* C22: aggregate_npz_files reads every input path and the array it saves
\* is the mean over all N inputs; over w=[1,2], w=[3,4] and w=[5,6], in any
\* order, it is w=[3,4] (and so never w=[2,3]).
C22_AggregatesEveryInput ==
    (aggPc = "returned" /\ N > 0) =>
        /\ aggRet.status = "ok"
        /\ aggRet.read = 1..N
        /\ \A j \in 1..2 :
              LET e == Content(outNpz)[1].a.data[j]
              IN  e[1] * N = e[2] * TotalAt(1..N, "w", j)
        /\ (N = 3 /\ { uploads[i] : i \in 1..N } = ScenarioFiles) =>
              Content(outNpz)[1].a.data = <<Frac(3, 1), Frac(4, 1)>>

\* C22 witness: the three uploads were aggregated in the order given and
\* the file holds w=[3,4].
C22_Witness ==
    /\ aggPc = "returned"
    /\ uploads = <<ScenarioFile(1, 2), ScenarioFile(3, 4), ScenarioFile(5, 6)>>
    /\ Content(outNpz)[1].a.data = <<Frac(3, 1), Frac(4, 1)>>

\* the keys of input i as a set
KeySetOf(i) == { uploads[i][x].k : x \in 1..Len(uploads[i]) }

C24_RaisingLeavesOutput ==
    [][ (aggPc = "ready" /\ aggPc' = "returned" /\ aggRet'.status # "ok") =>
          (/\ aggRet'.msg \in {"No input files provided",
                               "Mismatch in keys across uploaded files",
                               "all input arrays must have the same shape"}
           /\ ~aggRet'.wrote
           /\ outNpz' = outNpz) ]_vars

\* C24 witness: a call was refused for its keys and there is no output
\* file.
C24_Witness ==
    /\ aggPc = "returned"
    /\ aggRet.msg = "Mismatch in keys across uploaded files"
    /\ outNpz = Absent

\* C25: a call of hybrid_fl_aggregation with a non-empty list that found
\* the Keras model can only have raised in the conversion: never for the
\* clients' keys or shapes.
C25_NoComparisonAcrossClients ==
    (hpc = "raised" /\ Len(uploads) > 0 /\ Exists(pre.keras)) =>
        /\ hRet.stage = "convert"
        /\ hRet.err \in {"ConverterError", "OSError"}

\* C25 witness: the call returned for three clients of which two differ in
\* their key and two in the shape of the same key.
C25_Witness ==
    /\ hpc = "returned" /\ Len(uploads) = 3
    /\ \E i, j \in 1..3 : uploads[i][1].k # uploads[j][1].k
    /\ \E i, j \in 1..3 : /\ uploads[i][1].k = uploads[j][1].k
                          /\ uploads[i][1].a.shape # uploads[j][1].a.shape

\* C26: every 200 answer of /predict has label "Modic" exactly when the
\* modic score is greater than the no-modic score, "No Modic" otherwise,
\* and confidence and prediction equal to the larger score.
C26_LabelIsLargerScore ==
    \A r \in Requests :
        (reqs[r].resp.status = 200) =>
            LET a == reqs[r].resp
                no_modic == a.detailed_scores.no_modic
                modic == a.detailed_scores.modic
                larger == IF modic > no_modic THEN modic ELSE no_modic
            IN  /\ a.label = (IF modic > no_modic THEN "Modic" ELSE "No Modic")
                /\ a.confidence = larger
                /\ a.prediction = larger

\* C26 witness: a tie was answered "No Modic".
C26_Witness ==
    \E r \in Requests :
        /\ reqs[r].resp.status = 200
        /\ reqs[r].resp.detailed_scores.modic = reqs[r].resp.detailed_scores.no_modic
        /\ reqs[r].resp.label = "No Modic"

\* C27 (as claimed): with TensorFlow and the model loaded, a request whose
\* T1 or T2 upload is no image is answered 400.
C27_BadContentTypeIs400 ==
    \A r \in Requests :
        (reqs[r].pc = "done" /\ predEnv.tf_available /\ predEnv.loaded
            /\ (~IsImage(reqs[r].ct1) \/ ~IsImage(reqs[r].ct2))) =>
            reqs[r].resp.status = 400

\* C28: every 200 answer of /predict carries the scores of the interpreter
\* for that request's own two images, whatever other requests were being
\* handled.
C28_ScoresFromOwnImages ==
    \A r \in Requests :
        (reqs[r].resp.status = 200) =>
            LET own == Invoke(TensorsOf(predEnv.input_count, reqs[r].t1, reqs[r].t2))
            IN  /\ reqs[r].resp.detailed_scores.no_modic = own[1]
                /\ reqs[r].resp.detailed_scores.modic = own[2]

\* C28 witness: two requests with different images were both answered 200,
\* one of them while the other was awaiting its uploads.
C28_Witness ==
    /\ \A r \in Requests : reqs[r].resp.status = 200
    /\ \E r \in Requests : reqs[r].resp.overlapped
    /\ <<reqs[1].t1, reqs[1].t2>> # <<reqs[2].t1, reqs[2].t2>>

\* C29 (as claimed): the backup file, once there, is the client model that
\* the first sync that found a client model met.
C29_BackupKeepsFirstClientModel ==
    Exists(backupFile) => (backupFile = firstClient)

\* C30: production_model_setup runs verify, initialize, sync, manifest in
\* that order; it ends with False straight after a failed verify or
\* initialize, and otherwise, the sync failed or not, writes the manifest
\* and ends with True.
C30_SetupOrder ==
    /\ \E n \in 0..4 :
          setup.steps = SubSeq(<<"verify", "initialize", "sync", "manifest">>, 1, n)
    /\ (setup.pc = "done") =>
          IF setup.verified = "False"
          THEN setup.steps = <<"verify">> /\ setup.ret = "False"
          ELSE IF setup.initialized = "False"
          THEN setup.steps = <<"verify", "initialize">> /\ setup.ret = "False"
          ELSE /\ setup.steps = <<"verify", "initialize", "sync", "manifest">>
               /\ setup.ret = "True"
               /\ Exists(manifestFile)
    /\ (setup.pc # "done") => (setup.ret = "none" /\ ~Exists(manifestFile))

\* C30 witness: the sync failed, the manifest was written and the setup
\* ended with True.
C30_Witness ==
    /\ setup.pc = "done" /\ setup.sync_success = "False"
    /\ setup.ret = "True" /\ Exists(manifestFile)

=============================================================================
